---- MODULE Spec2Model ----
(***************************************************************************)
(* A model of the in-memory hash tree of package htree (src/htree.go).     *)
(*                                                                         *)
(* A node is a record [item, depth, remainder, children]; children is the  *)
(* slice of child nodes, held here as a sequence (index i of the Go slice  *)
(* is index i+1 of the sequence).  An item is a record [key, val]: key is  *)
(* what Item.Key() returns, val stands for the rest of the item, so that   *)
(* two items with one key can be told apart.  NoItem is the nil Item.      *)
(***************************************************************************)
EXTENDS Integers, Sequences, FiniteSets, TLC

VARIABLES root, length, conflicts, iter, call, abs, puts, seen, heap, changes

vars == <<root, length, conflicts, iter, call, abs, puts, seen, heap, changes>>

-----------------------------------------------------------------------------
(* Bounds of the model. *)

\* The map client uses the even keys 0, 2, .., 2 * MaxEven.
MaxEven == 4
\* Its keys 0, 2, .., 2 * MaxDupKey come with a second item of the same key.
MaxDupKey == 0
\* The walking client uses the keys 0..MaxKey.
MaxKey == 5
\* Put on a stored key is taken while conflicts < MaxConflicts.
MaxConflicts == 1
\* The deep workload uses the multiples 1..MaxMult of the product of the
\* first nine primes.
MaxMult == 2
\* Put is taken while fewer than MaxPuts Put calls were counted.
MaxPuts == 10
\* The client that keeps its iterator uses the keys 0, 6, .., 6 * MaxChain
\* and 4.
MaxChain == 2
\* It makes up to MaxChanges Put and Delete calls after it took the iterator.
MaxChanges == 3

-----------------------------------------------------------------------------
(* Items and nodes. *)

NoItem == [key |-> -1, val |-> 0]

Uint32Item(k, v) == [key |-> k, val |-> v]

\* The ladder with its last prime mistyped.
primesRepeated == <<2, 3, 5, 7, 11, 13, 17, 19, 23, 23>>

\* Prime numbers to build the tree.
primes == <<2, 3, 5, 7, 11, 13, 17, 19, 23, 29>>

\* int8(x) of a small non-negative integer: two's complement wrap at 8 bits.
int8(x) == IF (x % 256) > 127 THEN (x % 256) - 256 ELSE x % 256

\* modulo returns the remainder after division of key by the prime.
modulo(key, depth) == int8(key % primes[depth + 1])

\* newNode that leaves the remainder at its zero value.
newNodeNoRemainder(item, depth, remainder) ==
    [item |-> item, depth |-> depth, remainder |-> 0, children |-> <<>>]

\* newNode that puts the node one level too deep.
newNodeDeeper(item, depth, remainder) ==
    [item |-> item, depth |-> depth + 1, remainder |-> remainder, children |-> <<>>]

\* newNode that puts the node on the level of its parent.
newNodeSameDepth(item, depth, remainder) ==
    [item |-> item, depth |-> depth - 1, remainder |-> remainder, children |-> <<>>]

\* newNode creates a new node.
newNode(item, depth, remainder) ==
    [item |-> item, depth |-> depth, remainder |-> remainder, children |-> <<>>]

\* New(): &HTree{root: &node{}}, every field of the root at its zero value.
NewRoot == [item |-> NoItem, depth |-> 0, remainder |-> 0, children |-> <<>>]

-----------------------------------------------------------------------------
(* The children slice. *)

\* insert that forgets the position and appends.
childrenInsertAtEnd(s, i, n) == Append(s, n)

\* insert a node into the children slice at index i (0-based).
childrenInsert(s, i, n) == SubSeq(s, 1, i) \o <<n>> \o SubSeq(s, i + 1, Len(s))

\* delete that closes the gap one place too far and loses the node after i
\* as well.
childrenDeleteTwo(s, i) == SubSeq(s, 1, i) \o SubSeq(s, i + 3, Len(s))

\* delete a node from the children slice at index i (0-based).
childrenDelete(s, i) == SubSeq(s, 1, i) \o SubSeq(s, i + 2, Len(s))

\* The loop of search: left and right are 0-based.
RECURSIVE searchLoop(_, _, _, _)
searchLoop(s, r, left, right) ==
    IF left < right
    THEN LET mid == (left + right) \div 2
         IN  IF r > s[mid + 1].remainder
             THEN searchLoop(s, r, mid + 1, right)
             ELSE searchLoop(s, r, left, mid)
    ELSE [left |-> left, right |-> right]

\* search child by remainder via binary-search, returns the result and
\* left/right positions.
search(s, r) ==
    LET lr == searchLoop(s, r, 0, Len(s) - 1)
    IN  [ok    |-> lr.left = lr.right /\ s[lr.left + 1].remainder = r,
         left  |-> lr.left,
         right |-> lr.right]

-----------------------------------------------------------------------------
(* get, put and delete: the recursive helpers.  Each returns the subtree   *)
(* as the call leaves it together with what the call returns.              *)

\* get that looks at the children of n only and does not go down.
getShallow(n, key) ==
    LET r == modulo(key, n.depth)
        s == search(n.children, r)
    IN  IF s.ok /\ n.children[s.left + 1].item.key = key
        THEN n.children[s.left + 1].item
        ELSE NoItem

\* get item recursively, NoItem on not found.
RECURSIVE get(_, _)
get(n, key) ==
    LET r == modulo(key, n.depth)
        s == search(n.children, r)
    IN  IF s.ok
        THEN LET child == n.children[s.left + 1]
             IN  IF child.item.key = key THEN child.item ELSE get(child, key)
        ELSE NoItem

\* put as an upsert: on a stored key the new item takes the place of the old
\* one and is returned.
RECURSIVE putUpsert(_, _)
putUpsert(n, item) ==
    LET r == modulo(item.key, n.depth)
        s == search(n.children, r)
    IN  IF s.ok
        THEN LET child == n.children[s.left + 1]
             IN  IF child.item.key = item.key
                 THEN [node |-> [n EXCEPT !.children[s.left + 1].item = item],
                       ret |-> item, branch |-> "reuse"]
                 ELSE LET sub == putUpsert(child, item)
                      IN  [sub EXCEPT !.node =
                              [n EXCEPT !.children[s.left + 1] = sub.node]]
        ELSE IF n.depth >= Len(primes) - 1
             THEN [node |-> n, ret |-> NoItem, branch |-> "overflow"]
             ELSE LET child == newNode(item, n.depth + 1, r)
                      kids  == IF Len(n.children) = 0
                                  \/ (s.right = Len(n.children) - 1
                                      /\ r >= n.children[s.right + 1].remainder)
                               THEN Append(n.children, child)
                               ELSE childrenInsert(n.children, s.right, child)
                  IN  [node |-> [n EXCEPT !.children = kids], ret |-> child.item,
                       branch |-> "create"]

\* put: [node, ret, branch]; branch names the return statement taken:
\* "reuse" (the key is stored), "overflow", or "create".
RECURSIVE put(_, _)
put(n, item) ==
    LET r == modulo(item.key, n.depth)
        s == search(n.children, r)
    IN  IF s.ok
        THEN LET child == n.children[s.left + 1]
             IN  IF child.item.key = item.key
                 THEN [node |-> n, ret |-> child.item, branch |-> "reuse"]
                 ELSE LET sub == put(child, item)
                      IN  [sub EXCEPT !.node =
                              [n EXCEPT !.children[s.left + 1] = sub.node]]
        ELSE IF n.depth >= Len(primes) - 1
             THEN [node |-> n, ret |-> NoItem, branch |-> "overflow"]
             ELSE LET child == newNode(item, n.depth + 1, r)
                      kids  == IF Len(n.children) = 0
                                  \/ (s.right = Len(n.children) - 1
                                      /\ r >= n.children[s.right + 1].remainder)
                               THEN Append(n.children, child)
                               ELSE childrenInsert(n.children, s.right, child)
                  IN  [node |-> [n EXCEPT !.children = kids], ret |-> child.item,
                       branch |-> "create"]

\* The loop of delete going down the last child instead of the first.
RECURSIVE lastLeaf(_)
lastLeaf(c) ==
    IF Len(c.children[Len(c.children)].children) = 0
    THEN c.children[Len(c.children)]
    ELSE lastLeaf(c.children[Len(c.children)])

\* The leaf that delete's loop stops at: follow the first child down from c.
RECURSIVE firstLeaf(_)
firstLeaf(c) ==
    IF Len(c.children[1].children) = 0
    THEN c.children[1]
    ELSE firstLeaf(c.children[1])

\* delete(0) applied to the slice of c itself, whatever the father is.
dropFirstChild(c) == [c EXCEPT !.children = childrenDelete(c.children, 0)]

\* father.children.delete(0), seen from c: c with that leaf taken out of its
\* father's slice.
RECURSIVE dropFirstLeaf(_)
dropFirstLeaf(c) ==
    IF Len(c.children[1].children) = 0
    THEN [c EXCEPT !.children = childrenDelete(c.children, 0)]
    ELSE [c EXCEPT !.children[1] = dropFirstLeaf(c.children[1])]

\* delete that returns the item of the node it leaves in the slot: the leaf's
\* item when a leaf takes the place of the deleted node.
RECURSIVE deleteReturnsSlot(_, _)
deleteReturnsSlot(n, key) ==
    LET r == modulo(key, n.depth)
        s == search(n.children, r)
    IN  IF s.ok
        THEN LET child == n.children[s.left + 1]
             IN  IF child.item.key = key
                 THEN IF Len(child.children) = 0
                      THEN [node |-> [n EXCEPT !.children =
                                         childrenDelete(n.children, s.left)],
                            ret |-> child.item, branch |-> "leaf"]
                      ELSE LET leaf == firstLeaf(child)
                               rest == dropFirstLeaf(child)
                               repl == [newNode(leaf.item, child.depth,
                                                child.remainder)
                                          EXCEPT !.children = rest.children]
                           IN  [node |-> [n EXCEPT !.children[s.left + 1] = repl],
                                ret |-> repl.item, branch |-> "replace"]
                 ELSE LET sub == deleteReturnsSlot(child, key)
                      IN  [sub EXCEPT !.node =
                              [n EXCEPT !.children[s.left + 1] = sub.node]]
        ELSE [node |-> n, ret |-> NoItem, branch |-> "none"]

\* delete that takes the child found by its remainder for the node asked
\* for, without comparing the keys.
deleteBySlot(n, key) ==
    LET r == modulo(key, n.depth)
        s == search(n.children, r)
    IN  IF s.ok
        THEN LET child == n.children[s.left + 1]
             IN  IF Len(child.children) = 0
                 THEN [node |-> [n EXCEPT !.children =
                                    childrenDelete(n.children, s.left)],
                       ret |-> child.item, branch |-> "leaf"]
                 ELSE LET leaf == firstLeaf(child)
                          rest == dropFirstLeaf(child)
                          repl == [newNode(leaf.item, child.depth, child.remainder)
                                     EXCEPT !.children = rest.children]
                      IN  [node |-> [n EXCEPT !.children[s.left + 1] = repl],
                           ret |-> child.item, branch |-> "replace"]
        ELSE [node |-> n, ret |-> NoItem, branch |-> "none"]

\* delete: [node, ret, branch]; branch is "leaf" (the child is deleted
\* directly), "replace" (a leaf takes its place) or "none" (not found).
RECURSIVE delete(_, _)
delete(n, key) ==
    LET r == modulo(key, n.depth)
        s == search(n.children, r)
    IN  IF s.ok
        THEN LET child == n.children[s.left + 1]
             IN  IF child.item.key = key
                 THEN IF Len(child.children) = 0
                      THEN [node |-> [n EXCEPT !.children =
                                         childrenDelete(n.children, s.left)],
                            ret |-> child.item, branch |-> "leaf"]
                      ELSE LET leaf == firstLeaf(child)
                               rest == dropFirstLeaf(child)
                               repl == [newNode(leaf.item, child.depth,
                                                child.remainder)
                                          EXCEPT !.children = rest.children]
                           IN  [node |-> [n EXCEPT !.children[s.left + 1] = repl],
                                ret |-> child.item, branch |-> "replace"]
                 ELSE LET sub == delete(child, key)
                      IN  [sub EXCEPT !.node =
                              [n EXCEPT !.children[s.left + 1] = sub.node]]
        ELSE [node |-> n, ret |-> NoItem, branch |-> "none"]

-----------------------------------------------------------------------------
(* The iterator.  The tree is a value here, so a *node is the path that    *)
(* leads to the node from the root: the sequence of positions (1-based) in *)
(* the children slices on the way.  A path names the same node for as long *)
(* as the tree is not changed, which is how long an iterator is kept here: *)
(* Put and Delete drop it.                                                 *)

RECURSIVE nodeAt(_, _)
nodeAt(n, path) ==
    IF path = <<>> THEN n ELSE nodeAt(n.children[Head(path)], Tail(path))

NoIter == [live |-> FALSE, n |-> <<>>, i |-> 0, fathers |-> <<>>, indexes |-> <<>>]

\* &Iterator{n: t.root, i: 0, t: t}
newIterator == [live |-> TRUE, n |-> <<>>, i |-> 0, fathers |-> <<>>, indexes |-> <<>>]

\* The for loop of Next with a pop that leaves iter.i as it is.
RECURSIVE nextLoopKeepsIndex(_, _)
nextLoopKeepsIndex(t, it) ==
    IF Len(it.fathers) > 0
    THEN LET l      == Len(it.fathers)
             father == nodeAt(t, it.fathers[l])
         IN  IF it.i < Len(father.children) - 1
             THEN [iter |-> [it EXCEPT !.i = it.i + 1,
                                       !.n = Append(it.fathers[l], it.i + 2)],
                   ret  |-> TRUE]
             ELSE nextLoopKeepsIndex(t,
                      [it EXCEPT !.fathers = SubSeq(it.fathers, 1, l - 1),
                                 !.indexes = SubSeq(it.indexes, 1, l - 1)])
    ELSE [iter |-> it, ret |-> FALSE]

\* The for loop of Next with an end that takes the iterator back to the root.
RECURSIVE nextLoopRewinds(_, _)
nextLoopRewinds(t, it) ==
    IF Len(it.fathers) > 0
    THEN LET l      == Len(it.fathers)
             father == nodeAt(t, it.fathers[l])
         IN  IF it.i < Len(father.children) - 1
             THEN [iter |-> [it EXCEPT !.i = it.i + 1,
                                       !.n = Append(it.fathers[l], it.i + 2)],
                   ret  |-> TRUE]
             ELSE nextLoopRewinds(t,
                      [it EXCEPT !.fathers = SubSeq(it.fathers, 1, l - 1),
                                 !.indexes = SubSeq(it.indexes, 1, l - 1),
                                 !.i = it.indexes[l]])
    ELSE [iter |-> newIterator, ret |-> FALSE]

\* The for loop of Next: [iter, ret].
RECURSIVE nextLoop(_, _)
nextLoop(t, it) ==
    IF Len(it.fathers) > 0
    THEN LET l      == Len(it.fathers)
             father == nodeAt(t, it.fathers[l])
         IN  IF it.i < Len(father.children) - 1
             THEN [iter |-> [it EXCEPT !.i = it.i + 1,
                                       !.n = Append(it.fathers[l], it.i + 2)],
                   ret  |-> TRUE]
             ELSE nextLoop(t, [it EXCEPT !.fathers = SubSeq(it.fathers, 1, l - 1),
                                         !.indexes = SubSeq(it.indexes, 1, l - 1),
                                         !.i = it.indexes[l]])
    ELSE [iter |-> it, ret |-> FALSE]

\* Next with a push that does not set iter.i to 0.
iteratorNextNoReset(t, it) ==
    IF Len(nodeAt(t, it.n).children) > 0
    THEN [iter |-> [it EXCEPT !.fathers = Append(it.fathers, it.n),
                              !.indexes = Append(it.indexes, it.i),
                              !.n = Append(it.n, 1)],
          ret  |-> TRUE]
    ELSE nextLoop(t, it)

\* Next seeks the iterator to next: [iter, ret].
iteratorNext(t, it) ==
    IF Len(nodeAt(t, it.n).children) > 0
    THEN [iter |-> [it EXCEPT !.fathers = Append(it.fathers, it.n),
                              !.indexes = Append(it.indexes, it.i),
                              !.n = Append(it.n, 1),
                              !.i = 0],
          ret  |-> TRUE]
    ELSE nextLoop(t, it)

\* Item returns the current item.
iteratorItem(t, it) == nodeAt(t, it.n).item

-----------------------------------------------------------------------------
(* The tree as Go holds it: nodes behind pointers, children slices over    *)
(* arrays.  This is what an iterator sees that is kept while Put and       *)
(* Delete run: its *node fields go on pointing at the nodes they pointed   *)
(* at, in or out of the tree, and a node that delete has replaced shares   *)
(* the array of its children with the node that took its place.            *)
(*                                                                         *)
(* heap.node is the sequence of the nodes allocated, a pointer is an index *)
(* into it; a node is [item, depth, remainder, arr, len, cap], the last    *)
(* three being its children slice: the array (an index into heap.arr, 0    *)
(* for the nil slice), the length and the capacity.  heap.arr[a] holds the *)
(* cells of array a, node pointers or NilPtr.  heap.panic names the        *)
(* run-time panic the program has stopped at, "" while it runs.            *)

NilPtr == 0

\* t.root
RootPtr == 1

\* &node{item, depth, remainder}: the children slice is nil.
heapNode(item, depth, remainder) ==
    [item |-> item, depth |-> depth, remainder |-> remainder,
     arr |-> 0, len |-> 0, cap |-> 0]

\* New(): &HTree{root: &node{}}.
NewHeap ==
    [node |-> <<heapNode(NoItem, 0, 0)>>, arr |-> <<>>, panic |-> ""]

\* n.children[i] for the node behind p, i 0-based.
childPtr(h, p, i) == h.arr[h.node[p].arr][i + 1]

\* The nodes behind n.children, for the node behind p.
childNodes(h, p) == [j \in 1..h.node[p].len |-> h.node[childPtr(h, p, j - 1)]]

\* The capacity append gives a pointer slice that has to grow by one
\* element: 1 for an empty one, twice the old one else.
grownCap(cap) == IF cap = 0 THEN 1 ELSE 2 * cap

\* n.children = append(n.children, x) for the node behind p: in place when
\* the capacity allows, into a new array else.
sliceAppend(h, p, x) ==
    LET nd == h.node[p]
    IN  IF nd.len < nd.cap
        THEN [h EXCEPT !.arr[nd.arr][nd.len + 1] = x,
                       !.node[p].len = nd.len + 1]
        ELSE LET c     == grownCap(nd.cap)
                 cells == [j \in 1..c |->
                             IF j <= nd.len THEN h.arr[nd.arr][j]
                             ELSE IF j = nd.len + 1 THEN x
                             ELSE NilPtr]
             IN  [h EXCEPT !.arr = Append(h.arr, cells),
                           !.node[p] = [nd EXCEPT !.arr = Len(h.arr) + 1,
                                                  !.len = nd.len + 1,
                                                  !.cap = c]]

\* insert that does not move the cells up before it writes the node.
sliceInsertNoCopy(h, p, i, x) ==
    LET h1 == sliceAppend(h, p, NilPtr)
    IN  [h1 EXCEPT !.arr[h1.node[p].arr][i + 1] = x]

\* children.insert(i, x) on the slice of the node behind p: append nil, move
\* the cells i.. one place up, write x at i.
sliceInsert(h, p, i, x) ==
    LET h1  == sliceAppend(h, p, NilPtr)
        nd  == h1.node[p]
        old == h1.arr[nd.arr]
        up  == [j \in 1..Len(old) |->
                  IF j - 1 > i /\ j - 1 <= nd.len - 1 THEN old[j - 1] ELSE old[j]]
    IN  [h1 EXCEPT !.arr[nd.arr] = [up EXCEPT ![i + 1] = x]]

\* children.delete(i) on the slice of the node behind p: the cells after i
\* move one place down in the same array, the length goes down by one, and
\* the cell that was the last keeps what it held.
sliceDelete(h, p, i) ==
    LET nd   == h.node[p]
        old  == h.arr[nd.arr]
        down == [j \in 1..Len(old) |->
                   IF j - 1 >= i /\ j - 1 <= nd.len - 2 THEN old[j + 1] ELSE old[j]]
    IN  [h EXCEPT !.arr[nd.arr] = down, !.node[p].len = nd.len - 1]

\* put on the heap: [heap, ret, branch].
RECURSIVE heapPut(_, _, _)
heapPut(h, p, item) ==
    LET nd == h.node[p]
        r  == modulo(item.key, nd.depth)
        s  == search(childNodes(h, p), r)
    IN  IF s.ok
        THEN LET c == childPtr(h, p, s.left)
             IN  IF h.node[c].item.key = item.key
                 THEN [heap |-> h, ret |-> h.node[c].item, branch |-> "reuse"]
                 ELSE heapPut(h, c, item)
        ELSE IF nd.depth >= Len(primes) - 1
             THEN [heap |-> h, ret |-> NoItem, branch |-> "overflow"]
             ELSE LET x  == Len(h.node) + 1
                      h1 == [h EXCEPT !.node =
                               Append(h.node, heapNode(item, nd.depth + 1, r))]
                  IN  [heap |-> IF nd.len = 0
                                   \/ (s.right = nd.len - 1
                                       /\ r >= h.node[childPtr(h, p, s.right)].remainder)
                                THEN sliceAppend(h1, p, x)
                                ELSE sliceInsert(h1, p, s.right, x),
                       ret |-> item, branch |-> "create"]

\* The father that delete's loop stops at, from the node behind c down.
RECURSIVE leafFather(_, _)
leafFather(h, c) ==
    IF h.node[childPtr(h, c, 0)].len = 0
    THEN c
    ELSE leafFather(h, childPtr(h, c, 0))

\* delete on the heap: [heap, ret, branch].
RECURSIVE heapDelete(_, _, _)
heapDelete(h, p, key) ==
    LET nd == h.node[p]
        r  == modulo(key, nd.depth)
        s  == search(childNodes(h, p), r)
    IN  IF s.ok
        THEN LET c     == childPtr(h, p, s.left)
                 child == h.node[c]
             IN  IF child.item.key = key
                 THEN IF child.len = 0
                      THEN [heap |-> sliceDelete(h, p, s.left),
                            ret |-> child.item, branch |-> "leaf"]
                      ELSE LET father == leafFather(h, c)
                               leaf   == h.node[childPtr(h, father, 0)]
                               h1     == sliceDelete(h, father, 0)
                               x      == Len(h1.node) + 1
                               h2     == [h1 EXCEPT
                                            !.node = Append(h1.node,
                                                heapNode(leaf.item, child.depth,
                                                         child.remainder)),
                                            !.arr[nd.arr][s.left + 1] = x]
                           IN  [heap |-> [h2 EXCEPT
                                            !.node[x].arr = h1.node[c].arr,
                                            !.node[x].len = h1.node[c].len,
                                            !.node[x].cap = h1.node[c].cap],
                                ret |-> child.item, branch |-> "replace"]
                 ELSE heapDelete(h, c, key)
        ELSE [heap |-> h, ret |-> NoItem, branch |-> "none"]

\* The iterator over the heap has the fields of the iterator above; n and
\* the entries of fathers are pointers.  Next and Item give [iter, ret,
\* panic]: panic names the panic the call stops at, "" when it returns.
IndexPanic == "index out of range"

NilPanic == "nil pointer dereference"

\* &Iterator{n: t.root, i: 0, t: t}
heapIterator ==
    [live |-> TRUE, n |-> RootPtr, i |-> 0, fathers |-> <<>>, indexes |-> <<>>]

\* The for loop of Next.
RECURSIVE heapNextLoop(_, _)
heapNextLoop(h, it) ==
    IF Len(it.fathers) > 0
    THEN LET l      == Len(it.fathers)
             father == it.fathers[l]
         IN  IF father = NilPtr
             THEN [iter |-> it, ret |-> FALSE, panic |-> NilPanic]
             ELSE IF it.i < h.node[father].len - 1
             THEN IF it.i + 1 < 0 \/ it.i + 1 >= h.node[father].len
                  THEN [iter |-> [it EXCEPT !.i = it.i + 1],
                        ret |-> FALSE, panic |-> IndexPanic]
                  ELSE [iter |-> [it EXCEPT !.i = it.i + 1,
                                            !.n = childPtr(h, father, it.i + 1)],
                        ret |-> TRUE, panic |-> ""]
             ELSE IF l > Len(it.indexes)
             THEN [iter |-> it, ret |-> FALSE, panic |-> IndexPanic]
             ELSE heapNextLoop(h,
                      [it EXCEPT !.fathers = SubSeq(it.fathers, 1, l - 1),
                                 !.indexes = SubSeq(it.indexes, 1, l - 1),
                                 !.i = it.indexes[l]])
    ELSE [iter |-> it, ret |-> FALSE, panic |-> ""]

\* Next seeks the iterator to next.
heapNext(h, it) ==
    IF it.n = NilPtr
    THEN [iter |-> it, ret |-> FALSE, panic |-> NilPanic]
    ELSE IF h.node[it.n].len > 0
    THEN [iter |-> [it EXCEPT !.fathers = Append(it.fathers, it.n),
                              !.indexes = Append(it.indexes, it.i),
                              !.n = childPtr(h, it.n, 0),
                              !.i = 0],
          ret |-> TRUE, panic |-> ""]
    ELSE heapNextLoop(h, it)

\* Item returns the current item: [ret, panic].
heapItem(h, it) ==
    IF it.n = NilPtr
    THEN [ret |-> NoItem, panic |-> NilPanic]
    ELSE [ret |-> h.node[it.n].item, panic |-> ""]

-----------------------------------------------------------------------------
(* State.                                                                  *)
(*   root, length, conflicts   the fields of HTree                         *)
(*   iter                      the one Iterator the client holds, or NoIter*)
(*   call                      the last call made, what it returned (ret,  *)
(*                             or ok for a boolean) and the return         *)
(*                             statement it took                           *)
(*   abs                       history: the items a first-write-wins map   *)
(*                             would hold after the calls made so far      *)
(*   puts                      history: the number of Put calls made, or   *)
(*                             NoCount once Delete has been called         *)
(*   seen                      history: the items iter has produced        *)
(*   heap                      the nodes and arrays of the tree as Go      *)
(*                             holds it, for the client that keeps its     *)
(*                             iterator while it changes the tree          *)
(*   changes                   history: the number of Put and Delete calls *)
(*                             that client has made since it took its      *)
(*                             iterator                                    *)

NoCount == 0 - 1

\* An item that carries key k and is no stored item: the argument of the
\* calls that only read the key.
Probe(k) == [key |-> k, val |-> 0]

NoCall == [op |-> "New", arg |-> NoItem, ret |-> NoItem, ok |-> TRUE,
           branch |-> ""]

Init ==
    /\ root = NewRoot
    /\ length = 0
    /\ conflicts = 0
    /\ iter = NoIter
    /\ call = NoCall
    /\ abs = {}
    /\ puts = 0
    /\ seen = <<>>
    /\ heap = NewHeap
    /\ changes = 0

\* Put item into htree and returns the item.
Put(item) ==
    LET res == put(root, item)
    IN  /\ res.branch = "reuse" => conflicts < MaxConflicts
        /\ puts # NoCount => puts < MaxPuts
        /\ root' = res.node
        /\ length' = IF res.branch = "create" THEN length + 1 ELSE length
        /\ conflicts' = IF res.branch = "reuse" THEN conflicts + 1 ELSE conflicts
        /\ call' = [op |-> "Put", arg |-> item, ret |-> res.ret,
                    ok |-> res.ret # NoItem, branch |-> res.branch]
        /\ abs' = IF \E a \in abs : a.key = item.key THEN abs ELSE abs \cup {item}
        /\ puts' = IF puts = NoCount THEN NoCount ELSE puts + 1
        /\ iter' = NoIter
        /\ seen' = <<>>
        /\ UNCHANGED <<heap, changes>>

\* Delete item from htree and returns the item, NoItem on not found.
Delete(key) ==
    LET res == delete(root, key)
    IN  /\ root' = res.node
        /\ length' = IF res.branch = "none" THEN length ELSE length - 1
        /\ call' = [op |-> "Delete", arg |-> Probe(key), ret |-> res.ret,
                    ok |-> res.ret # NoItem, branch |-> res.branch]
        /\ abs' = {a \in abs : a.key # key}
        /\ puts' = NoCount
        /\ iter' = NoIter
        /\ seen' = <<>>
        /\ UNCHANGED <<conflicts, heap, changes>>

\* Get item from htree, NoItem if not found.
Get(key) ==
    LET ret == get(root, key)
    IN  /\ call' = [op |-> "Get", arg |-> Probe(key), ret |-> ret,
                    ok |-> ret # NoItem, branch |-> ""]
        /\ UNCHANGED <<root, length, conflicts, iter, abs, puts, seen, heap, changes>>

\* NewIterator returns a new iterator on this htree.
NewIterator ==
    /\ iter' = newIterator
    /\ seen' = <<>>
    /\ call' = [op |-> "NewIterator", arg |-> NoItem, ret |-> NoItem, ok |-> TRUE,
                branch |-> ""]
    /\ UNCHANGED <<root, length, conflicts, abs, puts, heap, changes>>

\* iter.Next()
IterNext ==
    /\ iter.live
    /\ LET res == iteratorNext(root, iter)
       IN  /\ iter' = res.iter
           /\ call' = [op |-> "Next", arg |-> NoItem, ret |-> NoItem,
                       ok |-> res.ret, branch |-> ""]
           /\ seen' = IF res.ret
                      THEN Append(seen, iteratorItem(root, res.iter))
                      ELSE seen
    /\ UNCHANGED <<root, length, conflicts, abs, puts, heap, changes>>

\* iter.Item()
IterItem ==
    /\ iter.live
    /\ call' = [op |-> "Item", arg |-> NoItem, ret |-> iteratorItem(root, iter),
                ok |-> iteratorItem(root, iter) # NoItem, branch |-> ""]
    /\ UNCHANGED <<root, length, conflicts, iter, abs, puts, seen, heap, changes>>

-----------------------------------------------------------------------------
(* What a tree holds, read off the structure without any search.           *)

\* The nodes below n.
RECURSIVE nodesOf(_)
nodesOf(n) ==
    UNION {{n.children[c]} \cup nodesOf(n.children[c]) : c \in 1..Len(n.children)}

itemsOf(n) == {x.item : x \in nodesOf(n)}

keysOf(n) == {x.item.key : x \in nodesOf(n)}

\* The keys held below n, gathered on the way down.
RECURSIVE keysBelow(_)
keysBelow(n) ==
    UNION {{n.children[c].item.key} \cup keysBelow(n.children[c]) :
              c \in 1..Len(n.children)}

-----------------------------------------------------------------------------
(* The shallow workloads, keys in any order.                               *)
(*                                                                         *)
(* Spec is the client that uses the tree as a map.  Its keys are even, so  *)
(* they all go down the first branch of the root and meet at depths 1 to   *)
(* 3: with 0, 2, 4, 6, 8 a node gets up to three children and a branch     *)
(* three levels.                                                           *)
(*                                                                         *)
(* SpecIter is the client that fills the tree and walks it; its keys are   *)
(* 0..MaxKey, as in the tests of the iterator.                             *)

Keys == {2 * i : i \in 0..MaxEven}

\* The items the map client holds: one for every key, and a second one, of
\* the same key and another payload, for the keys up to 2 * MaxDupKey.
Items ==
    {Uint32Item(k, 1) : k \in Keys} \cup {Uint32Item(2 * i, 2) : i \in 0..MaxDupKey}

Next ==
    \/ \E item \in Items : Put(item)
    \/ \E k \in Keys : Delete(k)
    \/ \E k \in Keys : Get(k)

Spec == Init /\ [][Next]_vars

IterKeys == 0..MaxKey

NextIter ==
    \/ \E k \in IterKeys : Put(Uint32Item(k, 1))
    \/ \E k \in IterKeys : Delete(k)
    \/ NewIterator
    \/ IterNext
    \/ IterItem

SpecIter == Init /\ [][NextIter]_vars

-----------------------------------------------------------------------------
(* The deep workload: keys that agree on the first primes of the ladder,   *)
(* so that they pile up on one branch.  primorial(j) is the product of the *)
(* first j primes; a key divisible by it has remainder 0 at depths 0..j-1. *)
(* The client puts keys in ascending order (as the loops of the tests do), *)
(* reads back the key it has just put (as TestPutN does), calls Delete at  *)
(* most once, at any point, and goes on putting.                           *)

RECURSIVE primorial(_)
primorial(j) == IF j = 0 THEN 1 ELSE primes[j] * primorial(j - 1)

DeepKeys ==
    {primorial(j) : j \in 1..(Len(primes) - 2)}
        \cup {m * primorial(Len(primes) - 1) : m \in 1..MaxMult}

NextDeep ==
    \/ \E k \in DeepKeys :
          /\ \A s \in keysOf(root) : k > s
          /\ Put(Uint32Item(k, 1))
    \/ \E k \in DeepKeys :
          /\ puts # NoCount
          /\ Delete(k)
    \/ /\ call.op = "Put"
       /\ Get(call.arg.key)

SpecDeep == Init /\ [][NextDeep]_vars

-----------------------------------------------------------------------------
(* The client that keeps its iterator while it changes the tree.  It works *)
(* on the heap; root, call, abs, puts and seen stay as they are at first:  *)
(* what a call returns is not recorded here, a panic is.  Its keys are 4   *)
(* and the multiples of 6 up to 6 * MaxChain: the multiples of 6 line up   *)
(* below one another under the first child, 4 is their brother.  The       *)
(* client fills the tree in ascending order, as the loops of the tests do, *)
(* takes its iterator at any point, and from then on calls Next, Item, Put *)
(* and Delete in any order with any of the keys, up to MaxChanges Put and  *)
(* Delete calls.  No call is made after a panic.                           *)

HeapKeys == {6 * m : m \in 0..MaxChain} \cup {4}

\* The pointers to the nodes in the tree below the node behind p.
RECURSIVE reachable(_, _)
reachable(h, p) ==
    UNION {IF childPtr(h, p, j) = NilPtr
           THEN {}
           ELSE {childPtr(h, p, j)} \cup reachable(h, childPtr(h, p, j)) :
              j \in 0..(h.node[p].len - 1)}

heapKeysOf(h) == {h.node[q].item.key : q \in reachable(h, RootPtr)}

HeapPut(item) ==
    LET res == heapPut(heap, RootPtr, item)
    IN  /\ heap.panic = ""
        /\ res.branch = "reuse" => conflicts < MaxConflicts
        /\ IF iter.live
           THEN changes < MaxChanges
           ELSE \A k \in heapKeysOf(heap) : item.key > k
        /\ heap' = res.heap
        /\ length' = IF res.branch = "create" THEN length + 1 ELSE length
        /\ conflicts' = IF res.branch = "reuse" THEN conflicts + 1 ELSE conflicts
        /\ changes' = IF iter.live THEN changes + 1 ELSE changes
        /\ UNCHANGED <<root, iter, call, abs, puts, seen>>

HeapDelete(key) ==
    LET res == heapDelete(heap, RootPtr, key)
    IN  /\ heap.panic = ""
        /\ iter.live
        /\ changes < MaxChanges
        /\ heap' = res.heap
        /\ length' = IF res.branch = "none" THEN length ELSE length - 1
        /\ changes' = changes + 1
        /\ UNCHANGED <<root, conflicts, iter, call, abs, puts, seen>>

HeapNewIterator ==
    /\ heap.panic = ""
    /\ ~iter.live
    /\ iter' = heapIterator
    /\ UNCHANGED <<root, length, conflicts, call, abs, puts, seen, heap, changes>>

HeapNext ==
    LET res == heapNext(heap, iter)
    IN  /\ heap.panic = ""
        /\ iter.live
        /\ iter' = res.iter
        /\ heap' = [heap EXCEPT !.panic = res.panic]
        /\ UNCHANGED <<root, length, conflicts, call, abs, puts, seen, changes>>

HeapItem ==
    LET res == heapItem(heap, iter)
    IN  /\ heap.panic = ""
        /\ iter.live
        /\ heap' = [heap EXCEPT !.panic = res.panic]
        /\ UNCHANGED <<root, length, conflicts, iter, call, abs, puts, seen, changes>>

NextHeap ==
    \/ \E k \in HeapKeys : HeapPut(Uint32Item(k, 1))
    \/ \E k \in HeapKeys : HeapDelete(k)
    \/ HeapNewIterator
    \/ HeapNext
    \/ HeapItem

SpecHeap == Init /\ [][NextHeap]_vars

-----------------------------------------------------------------------------
(* The product of the ladder, computed as TestPrimesLargerThanUint32 does: *)
(* in a uint64, held here as four 16-bit limbs, least significant first.   *)

Limb == 2 ^ 16

\* x * p in a uint64: the carry out of the last limb is dropped.
RECURSIVE mulUint64(_, _, _)
mulUint64(x, p, carry) ==
    IF x = <<>>
    THEN <<>>
    ELSE LET t == Head(x) * p + carry
         IN  <<t % Limb>> \o mulUint64(Tail(x), p, t \div Limb)

\* s after the first j rounds of the loop: s := 1; s *= primes[i].
RECURSIVE primesProduct(_)
primesProduct(j) ==
    IF j = 0 THEN <<1, 0, 0, 0>> ELSE mulUint64(primesProduct(j - 1), primes[j], 0)

\* uint64(^uint32(0))
MaxUint32 == <<Limb - 1, Limb - 1, 0, 0>>

\* x > y for two uint64.
RECURSIVE gtUint64(_, _)
gtUint64(x, y) ==
    IF x = <<>>
    THEN FALSE
    ELSE LET n == Len(x)
         IN  \/ x[n] > y[n]
             \/ x[n] = y[n] /\ gtUint64(SubSeq(x, 1, n - 1), SubSeq(y, 1, n - 1))

-----------------------------------------------------------------------------
(* Claims. *)

\* C1: after Put calls with pairwise distinct keys and no Delete, Len() is
\* the number of calls and Get on each key returns the item put for it.
\* (puts counts the Put calls of a history without Delete, abs holds one item
\* per key put: the keys were pairwise distinct when the two agree.)
C1_DistinctPutsAllStored ==
    (puts # NoCount /\ puts = Cardinality(abs))
        => /\ length = puts
           /\ \A a \in abs : get(root, a.key) = a

\* C2: a Put whose key is not stored never returns nil: it creates a node
\* for the key and returns the new item.
C2_PutNeverOverflows ==
    [][(call'.op = "Put" /\ call'.arg.key \notin keysOf(root))
          => /\ call'.ret = call'.arg
             /\ call'.arg \in itemsOf(root')]_vars

\* C3: the product of the ten primes exceeds the largest uint32, and any two
\* distinct keys the tree has met differ in their remainder at some depth of
\* the ladder.
C3_LadderDistinguishes ==
    /\ gtUint64(primesProduct(Len(primes)), MaxUint32)
    /\ \A k1, k2 \in keysOf(root) \cup {call.arg.key} :
          (k1 # k2 /\ k1 >= 0 /\ k2 >= 0)
              => \E d \in 0..(Len(primes) - 1) : modulo(k1, d) # modulo(k2, d)

\* C3 witness: two stored keys that only the last prime tells apart.
C3_Witness ==
    \E k1, k2 \in keysOf(root) :
        /\ k1 # k2
        /\ \A d \in 0..(Len(primes) - 2) : modulo(k1, d) = modulo(k2, d)

\* C4: Put of an item whose key is stored adds 1 to Conflicts(), leaves Len()
\* as it is and returns the item stored for the key; the stored items are
\* the same after the call, and Get of the key returns that item.
C4_PutStoredKeyReuses ==
    [][(call'.op = "Put" /\ call'.arg.key \in keysOf(root))
          => /\ conflicts' = conflicts + 1
             /\ length' = length
             /\ call'.ret \in itemsOf(root)
             /\ call'.ret.key = call'.arg.key
             /\ itemsOf(root') = itemsOf(root)
             /\ get(root', call'.arg.key) = call'.ret]_vars

\* C4 witness: a Put of a second item of a stored key has returned the first.
C4_Witness ==
    /\ call.op = "Put"
    /\ call.branch = "reuse"
    /\ call.ret # call.arg
    /\ call.ret.key = call.arg.key
    /\ conflicts = 1
    /\ length >= 2

\* C5: Delete of a stored key returns the item stored for the key, takes 1
\* off Len(), and Get of the key is nil right after it, whether the node was
\* a leaf or had children.
C5_DeleteStoredKey ==
    [][(call'.op = "Delete" /\ call'.arg.key \in keysOf(root))
          => /\ call'.ret \in itemsOf(root)
             /\ call'.ret.key = call'.arg.key
             /\ length' = length - 1
             /\ get(root', call'.arg.key) = NoItem]_vars

\* C5 witness: Delete has removed a node that had children, a leaf from two
\* levels below it has taken its place, and the key is gone.
C5_Witness ==
    /\ call.op = "Delete"
    /\ call.branch = "replace"
    /\ call.ret.key = 0
    /\ keysOf(root) = {2, 8}
    /\ root.children[1].item.key = 8
    /\ get(root, 0) = NoItem

\* C6: Delete of a key that is not stored returns nil and changes nothing:
\* Len(), Conflicts() and every node are as before.
C6_DeleteAbsentKey ==
    [][(call'.op = "Delete" /\ call'.arg.key \notin keysOf(root))
          => /\ call'.ret = NoItem
             /\ root' = root
             /\ length' = length
             /\ conflicts' = conflicts]_vars

\* C6 witness: Delete has missed in a tree that holds other keys, after
\* going down at least one level.
C6_Witness ==
    /\ call.op = "Delete"
    /\ call.branch = "none"
    /\ call.ret = NoItem
    /\ length >= 2
    /\ call.arg.key \notin keysOf(root)
    /\ search(root.children, modulo(call.arg.key, 0)).ok

\* C7: a fresh iterator on a tree that is not changed returns true from
\* Next() exactly Len() times and then false; on the empty tree the first
\* Next() is false.  (seen has one entry for every Next() that was true.)
C7_NextCountsLen ==
    iter.live
        => /\ Len(seen) <= length
           /\ (call.op = "Next" /\ ~call.ok) => Len(seen) = length

\* C7 witness: Next() has returned false on a tree of at least four items
\* that was built with Put and Delete.
C7_Witness ==
    /\ iter.live
    /\ call.op = "Next"
    /\ ~call.ok
    /\ length >= 4
    /\ puts = NoCount

\* The items below n in pre-order, the children by ascending remainder.
RECURSIVE preOrder(_)
preOrder(n) ==
    LET RECURSIVE from(_)
        from(r) ==
            IF r > primes[Len(primes)]
            THEN <<>>
            ELSE LET cs == {c \in 1..Len(n.children) : n.children[c].remainder = r}
                 IN  (IF cs = {}
                      THEN <<>>
                      ELSE LET c == CHOOSE c \in cs : TRUE
                           IN  <<n.children[c].item>> \o preOrder(n.children[c]))
                     \o from(r + 1)
    IN  from(0)

\* C8: the iterator produces the items in depth-first pre-order, siblings by
\* ascending remainder: what it has produced is the beginning of that order,
\* all of it once Next() is false, every item once and never the root's.
C8_IterationIsPreOrder ==
    iter.live
        => /\ Len(seen) <= Len(preOrder(root))
           /\ seen = SubSeq(preOrder(root), 1, Len(seen))
           /\ \A i \in 1..Len(seen) : seen[i] # NoItem
           /\ \A i, j \in 1..Len(seen) : seen[i] = seen[j] => i = j
           /\ (call.op = "Next" /\ ~call.ok) => {seen[i] : i \in 1..Len(seen)} = itemsOf(root)

\* C8 witness: the keys 0..5 were put and the iterator has produced
\* 0, 4, 2, 1, 3, 5.
C8_Witness ==
    /\ iter.live
    /\ puts = 6
    /\ conflicts = 0
    /\ [i \in 1..Len(seen) |-> seen[i].key] = <<0, 4, 2, 1, 3, 5>>
    /\ root.children[1].item.key = 0
    /\ root.children[2].item.key = 1

\* C9: without Delete, after the i-th Put call Len() + Conflicts() is i.
C9_EveryPutCounted ==
    puts # NoCount => length + conflicts = puts

\* C10: the children of every node, the root included, have pairwise
\* distinct remainders in strictly ascending order.
C10_ChildrenSorted ==
    \A n \in nodesOf(root) \cup {root} :
        \A i, j \in 1..Len(n.children) :
            i < j => n.children[i].remainder < n.children[j].remainder

\* C10 witness: Put has created a node between two of its brothers.
C10_Witness ==
    /\ call.op = "Put"
    /\ call.branch = "create"
    /\ \E n \in nodesOf(root) \cup {root} :
          \E i \in 2..(Len(n.children) - 1) : n.children[i].item = call.ret

\* C11: every node keeps the residue path: for a node X and every node Y
\* that is X or an ancestor of X other than the root, with P the parent of
\* Y, key(X.item) mod primes[P.depth] is Y.remainder; the node that a
\* promoting Delete installs is one of these nodes.
C11_ResiduePath ==
    \A P \in nodesOf(root) \cup {root} :
        \A c \in 1..Len(P.children) :
            LET Y == P.children[c]
            IN  \A X \in {Y} \cup nodesOf(Y) :
                   modulo(X.item.key, P.depth) = Y.remainder

\* C11 witness: Delete has put a leaf in the place of a node below the root,
\* and the new node has children and a grandchild.
C11_Witness ==
    /\ call.op = "Delete"
    /\ call.branch = "replace"
    /\ \E c \in 1..Len(root.children) :
          LET R == root.children[c]
          IN  /\ R.item.key # call.arg.key
              /\ Len(R.children) >= 2
              /\ \E g \in 1..Len(R.children) : Len(R.children[g].children) > 0

\* C12: the depth of every node is the depth of its parent plus one and no
\* node is deeper than 9, also when Delete has put a leaf in the place of a
\* node.
C12_DepthLadder ==
    /\ root.depth = 0
    /\ \A P \in nodesOf(root) \cup {root} :
          \A c \in 1..Len(P.children) :
              /\ P.children[c].depth = P.depth + 1
              /\ P.children[c].depth <= 9

\* C12 witness: Delete has put the leaf of depth 9 in the place of a node
\* higher up, and the branch still goes down to depth 8.
C12_Witness ==
    /\ call.op = "Delete"
    /\ call.branch = "replace"
    /\ puts = NoCount
    /\ length = 8
    /\ \E n \in nodesOf(root) : n.depth = 8
    /\ \E n \in nodesOf(root) : n.depth < 8 /\ n.item.key = primorial(9)

\* The slot of key below n: the positions (1-based) in the children slices
\* that the descent by remainders goes through, down to the node of the key;
\* <<>> when the descent misses.
RECURSIVE slotOf(_, _)
slotOf(n, key) ==
    LET r == modulo(key, n.depth)
        s == search(n.children, r)
    IN  IF s.ok
        THEN LET child == n.children[s.left + 1]
             IN  IF child.item.key = key
                 THEN <<s.left + 1>>
                 ELSE LET sub == slotOf(child, key)
                      IN  IF sub = <<>> THEN <<>> ELSE <<s.left + 1>> \o sub
        ELSE <<>>

\* The way from a node with children to the leaf under its first children.
RECURSIVE leftmostPath(_)
leftmostPath(n) ==
    IF Len(n.children[1].children) = 0
    THEN <<1>>
    ELSE <<1>> \o leftmostPath(n.children[1])

\* C13: when Delete removes a key whose node D has children, the leaf L at
\* the end of the first children below D is taken out of its father's
\* children, the slot of D holds L's item with the depth and the remainder
\* of D, and the call returns D's item.
C13_DeletePromotesFirstLeaf ==
    [][(call'.op = "Delete" /\ call'.arg.key \in keysBelow(root))
          => \A p \in {slotOf(root, call'.arg.key)} :
             \A D \in {nodeAt(root, p)} :
                Len(D.children) > 0
                   => \A lp \in {p \o leftmostPath(D)} :
                      \A L \in {nodeAt(root, lp)} :
                      \A R \in {nodeAt(root', p)} :
                         LET fp == SubSeq(lp, 1, Len(lp) - 1)
                         IN  /\ Len(L.children) = 0
                             /\ R.item = L.item
                             /\ R.depth = D.depth
                             /\ R.remainder = D.remainder
                             /\ call'.ret = D.item
                             /\ call'.ret.key = call'.arg.key
                             /\ call'.ret # L.item
                             /\ nodeAt(root', fp).children
                                   = Tail(nodeAt(root, fp).children)
                             /\ L.item.key \notin keysBelow(R)]_vars

\* C13 witness: Delete of 4 has put 6, the leaf below its first child 0, in
\* its place, and 0 is a leaf now.
C13_Witness ==
    /\ call.op = "Delete"
    /\ call.branch = "replace"
    /\ call.ret.key = 4
    /\ Len(root.children) = 1
    /\ root.children[1].item.key = 6
    /\ Len(root.children[1].children) = 2
    /\ root.children[1].children[1].item.key = 0
    /\ root.children[1].children[1].children = <<>>

\* C14 as stated: the node that takes the place of a deleted
\* node with children has as many children as the deleted node had.
C14_ChildrenCountKept ==
    [][LET k == call'.arg.key
           p == slotOf(root, k)
           D == nodeAt(root, p)
       IN  (call'.op = "Delete" /\ k \in keysBelow(root) /\ Len(D.children) > 0)
              => Len(nodeAt(root', p).children) = Len(D.children)]_vars

\* C14, amended: the node that takes the place of a deleted node with
\* children has as many children as the deleted node had when the first
\* child of the deleted node had children itself, and one fewer when that
\* first child was a leaf (it is the leaf taken); Len() goes down by one in
\* both cases.
C14_ChildrenCountAfterReplace ==
    [][LET k == call'.arg.key
           p == slotOf(root, k)
           D == nodeAt(root, p)
       IN  (call'.op = "Delete" /\ k \in keysBelow(root) /\ Len(D.children) > 0)
              => /\ Len(nodeAt(root', p).children)
                       = IF Len(D.children[1].children) = 0
                         THEN Len(D.children) - 1
                         ELSE Len(D.children)
                 /\ length' = length - 1]_vars

\* C14 witness: Delete of 0 from the branch 0 -> (6, 4, 2 -> 8) has put 6,
\* the first child and a leaf, in the place of 0: two children are left.
C14_Witness ==
    /\ call.op = "Delete"
    /\ call.branch = "replace"
    /\ call.ret.key = 0
    /\ keysOf(root) = {2, 4, 6, 8}
    /\ length = 4
    /\ root.children[1].item.key = 6
    /\ Len(root.children[1].children) = 2
    /\ root.children[1].children[2].item.key = 2

\* The number of nodes below n, counted one by one.
RECURSIVE countNodes(_)
countNodes(n) ==
    LET RECURSIVE upTo(_)
        upTo(c) ==
            IF c = 0 THEN 0 ELSE 1 + countNodes(n.children[c]) + upTo(c - 1)
    IN  upTo(Len(n.children))

\* C15: before and after every call, Len() is the number of nodes that can
\* be reached from the root, the root not counted, and no call makes
\* Conflicts() smaller.
C15_LenCountsNodes ==
    [][/\ length = countNodes(root)
       /\ length' = countNodes(root')
       /\ conflicts' >= conflicts]_vars

\* C15 witness: after a conflict and a Delete, Put has created a node in a
\* tree of three levels.
C15_Witness ==
    /\ call.op = "Put"
    /\ call.branch = "create"
    /\ puts = NoCount
    /\ conflicts = 1
    /\ length = 5
    /\ countNodes(root) = 5
    /\ \E n \in nodesOf(root) : n.depth = 3

\* The nested calls of the helper of Get, Put or Delete for key, from the
\* call on n down: the depth of the node of each call, which is the index
\* the call takes the prime at.  The three helpers go down the same way: to
\* the child with the remainder of the key, unless it holds the key.
RECURSIVE helperDepths(_, _)
helperDepths(n, key) ==
    LET r == modulo(key, n.depth)
        s == search(n.children, r)
    IN  <<n.depth>> \o
        (IF s.ok /\ n.children[s.left + 1].item.key # key
         THEN helperDepths(n.children[s.left + 1], key)
         ELSE <<>>)

\* C16: for every key, Get, Put and Delete return after at most 10 nested
\* calls of their helper, the call on the root counted, and every call takes
\* its prime at an index in 0..9.
C16_HelperCallsBounded ==
    \A k \in DeepKeys \cup {0} :
        LET ds == helperDepths(root, k)
        IN  /\ Len(ds) <= 10
            /\ \A i \in 1..Len(ds) : ds[i] \in 0..9 /\ ds[i] + 1 \in DOMAIN primes

\* C16 witness: a Put has gone through ten calls of put, down to the node of
\* depth 9, and has come back with nil.
C16_Witness ==
    /\ call.op = "Put"
    /\ call.branch = "overflow"
    /\ helperDepths(root, call.arg.key) = <<0, 1, 2, 3, 4, 5, 6, 7, 8, 9>>

\* C17: the tree refines a set S of keys that is empty at first, gains k by
\* a Put of k that does not return nil and loses k by Delete of k.  The set
\* of the keys held by the nodes is taken for S: it starts empty and every
\* step changes it as S changes; and in every tree, the first one and each
\* one a step has made, no key is held by two nodes and Get of a key returns
\* an item, the one of that key, exactly when the key is in the set (a step
\* that leaves the tree as it is leaves a tree that was looked at when it
\* was made).  So a Delete loses no key but its own.
C17_RefinesKeySet ==
    [][\A S \in {keysBelow(root)} :
       \A Snext \in {keysBelow(root')} :
          LET k == call'.arg.key
          IN  /\ call = NoCall => S = {}
              /\ call'.op = "Put"
                    => Snext = IF call'.ret # NoItem THEN S \cup {k} ELSE S
              /\ call'.op = "Delete" => Snext = S \ {k}
              /\ call'.op \notin {"Put", "Delete"} => Snext = S
              /\ (root' # root \/ call = NoCall)
                    => /\ countNodes(root') = Cardinality(Snext)
                       /\ \A q \in Snext \cup S \cup Keys \cup {k} :
                             \A g \in {get(root', q)} :
                                IF q \in Snext THEN g.key = q ELSE g = NoItem]_vars

\* C17 witness: Delete has put a leaf in the place of a node, its key is
\* gone, and Get still finds the three keys left, one of them two levels
\* below the new node.
C17_Witness ==
    /\ call.op = "Delete"
    /\ call.branch = "replace"
    /\ get(root, call.arg.key) = NoItem
    /\ Cardinality(keysOf(root)) = 3
    /\ \A q \in keysOf(root) : get(root, q).key = q
    /\ \E n \in nodesOf(root) : n.depth = 3

\* C19: once Next() has returned false, a Next() made on the same iterator
\* while the tree is as it was returns false again and leaves every field of
\* the iterator as it is (so the state after it is the state before it, and
\* the same goes for every Next() after that); an Item() in between changes
\* neither the iterator nor the tree.
C19_ExhaustionIsStable ==
    [][/\ (iter'.live /\ call'.op = "Next" /\ ~call'.ok)
             => iteratorNext(root', iter') = [iter |-> iter', ret |-> FALSE]
       /\ (iter.live /\ call'.op = "Item") => (iter' = iter /\ root' = root)]_vars

\* C19 witness: Next() has returned false after a walk of a tree of three
\* levels, with the iterator at a leaf two levels below the root and its
\* stacks empty.
C19_Witness ==
    /\ iter.live
    /\ call.op = "Next"
    /\ ~call.ok
    /\ iter.fathers = <<>>
    /\ iter.indexes = <<>>
    /\ Len(iter.n) = 2
    /\ Len(seen) = 5
    /\ iteratorNext(root, iter).ret = FALSE

\* C18: Next and Item never index a children slice out of its range and
\* never dereference a nil node, whatever Put and Delete calls are made
\* between them: no call of the client that keeps its iterator ends in a
\* panic; the pointers of the iterator are never nil, and neither is any
\* cell within the length of the children slice of a node that the iterator
\* points at or that is in the tree.
C18_IteratorNeverPanics ==
    /\ heap.panic = ""
    /\ \A p \in reachable(heap, RootPtr) \cup {RootPtr} :
          \A j \in 0..(heap.node[p].len - 1) : childPtr(heap, p, j) # NilPtr
    /\ iter.live
          => /\ iter.n # NilPtr
             /\ Len(iter.indexes) = Len(iter.fathers)
             /\ \A f \in 1..Len(iter.fathers) : iter.fathers[f] # NilPtr
             /\ \A p \in {iter.n} \cup {iter.fathers[f] : f \in 1..Len(iter.fathers)} :
                   \A j \in 0..(heap.node[p].len - 1) :
                      childPtr(heap, p, j) # NilPtr

\* C18 witness: the iterator stood below node 0 when Delete put a leaf in
\* its place; a Delete and a Put then changed the children of the new node,
\* the Put by an insert into the array that the old node still has; and
\* Next has gone on to the next child of the old node, which is its father
\* on the stack, and reads the node through the old slice.
C18_Witness ==
    /\ heap.panic = ""
    /\ iter.live
    /\ changes = 3
    /\ Len(iter.fathers) = 2
    /\ LET f    == iter.fathers[2]
           live == reachable(heap, RootPtr)
       IN  /\ f # RootPtr
           /\ f \notin live
           /\ \E q \in live :
                 /\ heap.node[q].arr = heap.node[f].arr
                 /\ heap.node[q].len = 2
                 /\ heap.node[q].cap = 2
           /\ heap.node[f].len = 2
           /\ childPtr(heap, f, 0) = Len(heap.node)
           /\ iter.i = 1
           /\ iter.n = childPtr(heap, f, 1)
           /\ iter.n \in live

====
